---- MODULE Spec2Model ----
(***************************************************************************)
(* The metrics core of streamlit_app.py: AOI classification of gaze rows,  *)
(* grouped fixation sums, coverage / mean / first-fixation aggregates, the *)
(* additive efficiency score and the performance label.                    *)
(*                                                                         *)
(* Numbers.  Python floats are modelled by exact rationals                 *)
(* [num, den] with den > 0; the value sets below keep every quotient away  *)
(* from a rounding tie, so the exact quotient and the float agree on every *)
(* comparison and on round(., 2).  A value rounded to 2 decimals is held   *)
(* as its integer count of hundredths (5.00 is 500).                       *)
(* A cell that may be a number, a float NaN or a string is a tagged value  *)
(* [t, v] with t in {"num", "nan", "str"}.                                 *)
(***************************************************************************)
EXTENDS Integers, Sequences, FiniteSets, TLC

VARIABLES
    uploaded_file,  \* rows parsed from the uploaded CSV, not yet processed
    df,             \* the DataFrame object of the script (rows, with AOI column)
    pc,             \* position of the script / caller
    calls,          \* every calculate_metrics call so far: [input, output]
    call,           \* arguments of a direct calculate_efficiency_score call
    ret             \* what the direct call returned: [score, level]

vars == <<uploaded_file, df, pc, calls, call, ret>>

\* ------------------------------------------------------------------ bounds
MaxRows == 2
MaxSessionRows == 1
MaxCalls == 3

\* ------------------------------------------------------------------ values
Num(n) == [t |-> "num", v |-> n]
NaN == [t |-> "nan", v |-> 0]
NA == [t |-> "str", v |-> 0]

Rat(n, d) == IF d < 0 THEN [num |-> -n, den |-> -d] ELSE [num |-> n, den |-> d]

\* the label cell of a row of a frame that has no AOI column (reads as NaN)
NoColumn == "<no AOI column>"

\* ------------------------------------------------------------------ AOIs
AOIs ==
    << [name |-> "Component Bin",     bounds |-> << <<100, 100>>, <<200, 200>> >>],
       [name |-> "Instruction Label", bounds |-> << <<300, 100>>, <<400, 200>> >>],
       [name |-> "Tool Area",         bounds |-> << <<100, 300>>, <<200, 400>> >>],
       [name |-> "Assembly Zone",     bounds |-> << <<300, 300>>, <<400, 400>> >>] >>

is_in_aoi_strict(x, y, aoi_bounds) ==
    LET x1 == aoi_bounds[1][1]
        y1 == aoi_bounds[1][2]
        x2 == aoi_bounds[2][1]
        y2 == aoi_bounds[2][2]
    IN  x1 < x /\ x < x2 /\ y1 < y /\ y < y2

is_in_aoi(x, y, aoi_bounds) ==
    LET x1 == aoi_bounds[1][1]
        y1 == aoi_bounds[1][2]
        x2 == aoi_bounds[2][1]
        y2 == aoi_bounds[2][2]
    IN  x1 <= x /\ x <= x2 /\ y1 <= y /\ y <= y2

\* ------------------------------------------------- calculate_metrics, labels
\* line 19 deleted: the column is created by the first df.loc assignment and
\* the rows it does not touch stay NaN
reset_AOI_missing(d) == d

\* df['AOI'] = 'Outside'
reset_AOI(d) == [i \in DOMAIN d |-> [d[i] EXCEPT !.AOI = "Outside"]]

\* one pass of the loop body: mask = df.apply(...); df.loc[mask, 'AOI'] = name
assign_aoi(d, k) ==
    [i \in DOMAIN d |->
        IF is_in_aoi(d[i].x, d[i].y, AOIs[k].bounds)
        THEN [d[i] EXCEPT !.AOI = AOIs[k].name]
        ELSE d[i]]

RECURSIVE aoi_loop(_, _)
aoi_loop(d, k) ==
    IF k > Len(AOIs) THEN d ELSE aoi_loop(assign_aoi(d, k), k + 1)

label_aoi(d) == aoi_loop(reset_AOI(d), 1)

\* ---------------------------------------------- calculate_metrics, aggregates
RECURSIVE SumSeq(_)
SumSeq(s) == IF s = <<>> THEN 0 ELSE Head(s) + SumSeq(Tail(s))

\* Series.sum() of the duration cells of the rows with index in S (NaN is skipped)
duration_sum(d, S) ==
    SumSeq([i \in DOMAIN d |->
               IF i \in S /\ d[i].duration.t = "num" THEN d[i].duration.v ELSE 0])

\* df.groupby('AOI')['duration'].sum(): one entry per label present; rows whose
\* key is NaN are dropped by groupby
fixation_time(d) ==
    LET labels == {d[i].AOI : i \in DOMAIN d} \ {NoColumn}
    IN  [l \in labels |-> duration_sum(d, {i \in DOMAIN d : d[i].AOI = l})]

RECURSIVE SumGroups(_, _)
SumGroups(ft, ls) ==
    IF ls = {} THEN 0
    ELSE LET l == CHOOSE l \in ls : TRUE IN ft[l] + SumGroups(ft, ls \ {l})

\* fixation_time.sum()
total_fixation(d) == SumGroups(fixation_time(d), DOMAIN fixation_time(d))

\* fixation_time.get('Outside', 0)
outside_time(d) ==
    IF "Outside" \in DOMAIN fixation_time(d) THEN fixation_time(d)["Outside"] ELSE 0

degenerate_nonpositive(total) == total <= 0

\* if total_fixation == 0: return {}
degenerate(total) == total = 0

aoi_coverage_outside_share(d) ==
    Rat(outside_time(d) * 100, total_fixation(d))

aoi_coverage_added(d) ==
    Rat((total_fixation(d) + outside_time(d)) * 100, total_fixation(d))

aoi_coverage(d) ==
    Rat((total_fixation(d) - outside_time(d)) * 100, total_fixation(d))

\* df['duration'].mean(): over all rows, NaN skipped
avg_fixation_duration(d) ==
    LET n == Cardinality({i \in DOMAIN d : d[i].duration.t = "num"})
    IN  Rat(duration_sum(d, DOMAIN d), n)

\* df[df['AOI'] == "Instruction Label"]['timestamp'].min(): NaN skipped, NaN
\* when nothing is left
time_to_first_fixation(d) ==
    LET ts == {d[i].timestamp.v : i \in {j \in DOMAIN d :
                   d[j].AOI = "Instruction Label" /\ d[j].timestamp.t = "num"}}
    IN  IF ts = {} THEN NaN
        ELSE Num(CHOOSE m \in ts : \A o \in ts : m <= o)

\* round(q, 2) in hundredths: nearest, an exact tie to the even neighbour
round2(q) ==
    LET n == q.num * 100
        f == n \div q.den
        r == 2 * (n - f * q.den)
    IN  IF r < q.den THEN f
        ELSE IF r > q.den THEN f + 1
        ELSE IF f % 2 = 0 THEN f ELSE f + 1

\* ------------------------------------------------ calculate_efficiency_score
\* comparisons of a float (a rational here) with an integer literal
GE(q, k) == q.num >= k * q.den
GT(q, k) == q.num > k * q.den
LT(q, k) == q.num < k * q.den

\* x < k for a cell: False for NaN
CellLT(c, k) == c.t = "num" /\ c.v < k

\* the second coverage clause credited 30 like the first
calculate_efficiency_score_weight(coverage, avg_fix, time_to_first) ==
    LET ttf == IF time_to_first.t = "str" THEN Num(99999) ELSE time_to_first
    IN  (IF GE(coverage, 90) THEN 30 ELSE 0)
      + (IF LT(avg_fix, 200) THEN 10 ELSE 0)
      + (IF CellLT(ttf, 1000) THEN 15 ELSE 0)
      + (IF GT(coverage, 95) THEN 30 ELSE 0)
      + (IF GT(coverage, 85) /\ LT(avg_fix, 220) THEN 25 ELSE 0)

\* the first coverage clause strict
calculate_efficiency_score_strict90(coverage, avg_fix, time_to_first) ==
    LET ttf == IF time_to_first.t = "str" THEN Num(99999) ELSE time_to_first
    IN  (IF GT(coverage, 90) THEN 30 ELSE 0)
      + (IF LT(avg_fix, 200) THEN 10 ELSE 0)
      + (IF CellLT(ttf, 1000) THEN 15 ELSE 0)
      + (IF GT(coverage, 95) THEN 20 ELSE 0)
      + (IF GT(coverage, 85) /\ LT(avg_fix, 220) THEN 25 ELSE 0)

\* the fourth clause inclusive
calculate_efficiency_score_incl95(coverage, avg_fix, time_to_first) ==
    LET ttf == IF time_to_first.t = "str" THEN Num(99999) ELSE time_to_first
    IN  (IF GE(coverage, 90) THEN 30 ELSE 0)
      + (IF LT(avg_fix, 200) THEN 10 ELSE 0)
      + (IF CellLT(ttf, 1000) THEN 15 ELSE 0)
      + (IF GE(coverage, 95) THEN 20 ELSE 0)
      + (IF GT(coverage, 85) /\ LT(avg_fix, 220) THEN 25 ELSE 0)

calculate_efficiency_score(coverage, avg_fix, time_to_first) ==
    LET ttf == IF time_to_first.t = "str" THEN Num(99999) ELSE time_to_first
    IN  (IF GE(coverage, 90) THEN 30 ELSE 0)
      + (IF LT(avg_fix, 200) THEN 10 ELSE 0)
      + (IF CellLT(ttf, 1000) THEN 15 ELSE 0)
      + (IF GT(coverage, 95) THEN 20 ELSE 0)
      + (IF GT(coverage, 85) /\ LT(avg_fix, 220) THEN 25 ELSE 0)

\* ------------------------------------------------------- classify_performance
classify_performance_strict(score) ==
    IF score > 85 THEN "Efficient"
    ELSE IF score >= 70 THEN "Acceptable"
    ELSE IF score >= 50 THEN "Needs Attention"
    ELSE "High Risk"

classify_performance(score) ==
    IF score >= 85 THEN "Efficient"
    ELSE IF score >= 70 THEN "Acceptable"
    ELSE IF score >= 50 THEN "Needs Attention"
    ELSE "High Risk"

\* ------------------------------------------------- calculate_metrics, result
KeyCoverage == "AOI Coverage (%)"
KeyAverage == "Average Fixation Duration (ms)"
KeyFirst == "Time to First Fixation (Instruction Label, ms)"
KeyScore == "Efficiency Score (/100)"
KeyLevel == "Performance Level"
MetricKeys == {KeyCoverage, KeyAverage, KeyFirst, KeyScore, KeyLevel}

\* {}
EmptyRecord == [k \in {} |-> 0]

\* lines 24-40, on the labelled frame
metrics_record(l) ==
    IF degenerate(total_fixation(l)) THEN EmptyRecord
    ELSE LET cov == aoi_coverage(l)
             avg == avg_fixation_duration(l)
             ttf == time_to_first_fixation(l)
         IN  (KeyCoverage :> round2(cov))
          @@ (KeyAverage :> round2(avg))
          @@ (KeyFirst :> IF ttf.t = "nan" THEN NA
                          ELSE Num(round2(Rat(ttf.v, 1))))
          @@ (KeyScore :> calculate_efficiency_score(cov, avg, ttf))
          @@ (KeyLevel :>
                classify_performance(calculate_efficiency_score(cov, avg, ttf)))

\* a result cached without its input as the key
calculate_metrics_stale(d) ==
    IF calls # <<>> /\ DOMAIN calls[Len(calls)].output # {}
    THEN calls[Len(calls)].output
    ELSE metrics_record(label_aoi(d))

calculate_metrics(d) == metrics_record(label_aoi(d))

\* the four input columns of a frame, without the derived label
raw(d) == [i \in DOMAIN d |-> [d[i] EXCEPT !.AOI = NoColumn]]
\* ------------------------------------------------------------------ inputs
\* duration and timestamp cells a CSV row may hold (a missing cell is NaN)
Durations == {Num(n) : n \in {-50, 0, 10, 50, 90, 950}} \cup {NaN}
Timestamps == {Num(n) : n \in {500, 1000}} \cup {NaN}

Row(px, py, dur, ts) ==
    [x |-> px, y |-> py, duration |-> dur, timestamp |-> ts, AOI |-> NoColumn]

\* rows inside Instruction Label, inside Component Bin and outside every AOI
Rows ==
    {Row(350, 150, dur, ts) : dur \in Durations, ts \in Timestamps}
    \cup {Row(150, 150, dur, Num(50)) : dur \in Durations}
    \cup {Row(250, 250, dur, Num(50)) : dur \in Durations}

SeqsUpTo(S, n) == UNION {[1..k -> S] : k \in 0..n}

Datasets == SeqsUpTo(Rows, MaxRows)

\* one-row frames over a grid that crosses every edge of every rectangle
GridCoords == {99, 100, 150, 200, 201, 250, 299, 300, 350, 400, 401}
GridDatasets ==
    {<<Row(px, py, Num(100), Num(50))>> : px \in GridCoords, py \in GridCoords}

SessionRows ==
    { Row(350, 150, Num(50), Num(500)), Row(250, 250, Num(950), Num(50)),
      Row(150, 150, Num(100), Num(50)), Row(250, 250, Num(0), Num(50)) }
SessionDatasets == SeqsUpTo(SessionRows, MaxSessionRows)

\* arguments of a direct call of calculate_efficiency_score
Coverages ==
    {Rat(n, 100) : n \in {-10000, 0, 8500, 8501, 8999, 9000, 9500, 9501, 10000, 30000}}
Averages == {Rat(n, 100) : n \in {0, 19999, 20000, 21999, 22000, 50000}}
FirstTimes == {Num(n) : n \in {0, 999, 1000, 99999}} \cup {NaN, NA}

NoCall == [coverage |-> Rat(0, 1), avg_fix |-> Rat(0, 1), time_to_first |-> NaN]
NoRet == [score |-> 0, level |-> ""]

\* ------------------------------------------------------------------ actions
\* a file is chosen in the sidebar uploader
FileUpload(d) ==
    /\ pc \in {"idle", "reported", "recalculated"}
    /\ Len(calls) < MaxCalls
    /\ uploaded_file' = <<d>>
    /\ pc' = "uploaded"
    /\ UNCHANGED <<df, calls, call, ret>>

\* the script body: df = pd.read_csv(uploaded_file); metrics = calculate_metrics(df)
RunScript ==
    /\ pc = "uploaded"
    /\ LET d0 == uploaded_file[1]
       IN  /\ calls' = Append(calls, [input |-> raw(d0), output |-> calculate_metrics(d0)])
           /\ df' = label_aoi(d0)
    /\ uploaded_file' = <<>>
    /\ pc' = "reported"
    /\ UNCHANGED <<call, ret>>

\* calculate_metrics(df) once more on the frame object the script's call has
\* labelled (the frame is left as that call left it, so a third call on it
\* would start from the state the second one started from)
Recalculate ==
    /\ pc = "reported"
    /\ Len(calls) < MaxCalls
    /\ calls' = Append(calls, [input |-> raw(df), output |-> calculate_metrics(df)])
    /\ df' = label_aoi(df)
    /\ pc' = "recalculated"
    /\ UNCHANGED <<uploaded_file, call, ret>>

\* a direct call of calculate_efficiency_score, its result classified
Score ==
    /\ pc = "scoring"
    /\ LET s == calculate_efficiency_score(call.coverage, call.avg_fix, call.time_to_first)
       IN  ret' = [score |-> s, level |-> classify_performance(s)]
    /\ pc' = "scored"
    /\ UNCHANGED <<uploaded_file, df, calls, call>>

\* ------------------------------------------------------------- specifications
\* one frame through calculate_metrics (and again), or one direct scoring call
InitUpload ==
    /\ pc = "uploaded"
    /\ uploaded_file \in {<<d>> : d \in Datasets \cup GridDatasets}
    /\ call = NoCall

InitScoring ==
    /\ pc = "scoring"
    /\ uploaded_file = <<>>
    /\ call \in [coverage : Coverages, avg_fix : Averages, time_to_first : FirstTimes]

Init ==
    /\ df = <<>>
    /\ calls = <<>>
    /\ ret = NoRet
    /\ (InitUpload \/ InitScoring)

Next == RunScript \/ Recalculate \/ Score

Spec == Init /\ [][Next]_vars

\* one process lifetime: several uploads, each run of the script, repeated calls
SessionInit ==
    /\ pc = "idle"
    /\ uploaded_file = <<>>
    /\ df = <<>>
    /\ calls = <<>>
    /\ call = NoCall
    /\ ret = NoRet

SessionNext ==
    \/ \E d \in SessionDatasets : FileUpload(d)
    \/ RunScript
    \/ Recalculate

SessionSpec == SessionInit /\ [][SessionNext]_vars
\* ------------------------------------------------------------------ claims
\* what the claims speak of, stated without the operators above
RawTotal(d) ==
    SumSeq([i \in DOMAIN d |-> IF d[i].duration.t = "num" THEN d[i].duration.v ELSE 0])

Contains(k, px, py) ==
    /\ AOIs[k].bounds[1][1] <= px /\ px <= AOIs[k].bounds[2][1]
    /\ AOIs[k].bounds[1][2] <= py /\ py <= AOIs[k].bounds[2][2]

FirstMatch(px, py) ==
    LET hits == {k \in DOMAIN AOIs : Contains(k, px, py)}
    IN  IF hits = {} THEN "Outside"
        ELSE AOIs[CHOOSE k \in hits : \A h \in hits : k <= h].name

ClauseSum(c, a, tf) ==
      (IF c.num >= 90 * c.den THEN 30 ELSE 0)
    + (IF a.num < 200 * a.den THEN 10 ELSE 0)
    + (IF tf.t = "num" /\ tf.v < 1000 THEN 15 ELSE 0)
    + (IF c.num > 95 * c.den THEN 20 ELSE 0)
    + (IF c.num > 85 * c.den /\ a.num < 220 * a.den THEN 25 ELSE 0)

Labelled == pc \in {"reported", "recalculated"}

Returned(i) == DOMAIN calls[i].output # {}

NonNegative(d) == \A i \in DOMAIN d : d[i].duration.t = "num" => d[i].duration.v >= 0

HasInstructionRow(d) ==
    \E i \in DOMAIN d : FirstMatch(d[i].x, d[i].y) = "Instruction Label"

\* C1: calculate_metrics returns the empty record exactly for the datasets whose
\* durations sum to 0 (the zero-row dataset among them), and a record with the
\* five keys for every other dataset.
C1_EmptyRecordIffZeroTotal ==
    \A i \in DOMAIN calls :
        /\ RawTotal(calls[i].input) = 0 => DOMAIN calls[i].output = {}
        /\ RawTotal(calls[i].input) # 0 => DOMAIN calls[i].output = MetricKeys

C1_Witness ==
    /\ pc = "reported"
    /\ calls[1].input = <<>>
    /\ calls[1].output = EmptyRecord

\* C2: after classification every row carries the name of the first AOI, in
\* declaration order, whose rectangle contains (x, y) with inclusive bounds, or
\* "Outside" when none does.
C2_LabelIsFirstMatch ==
    Labelled =>
        \A i \in DOMAIN df : df[i].AOI = FirstMatch(df[i].x, df[i].y)

C2_Witness ==
    /\ pc = "reported"
    /\ Len(df) = 1
    /\ df[1].x = 200 /\ df[1].y = 100
    /\ df[1].AOI = "Component Bin"

\* C3 as claimed: every returned record has 0 <= AOI Coverage (%) <= 100.
C3_CoverageBoundedForAll ==
    \A i \in DOMAIN calls :
        Returned(i) =>
            /\ 0 <= calls[i].output[KeyCoverage]
            /\ calls[i].output[KeyCoverage] <= 10000

\* C3 as amended: for every dataset with no negative duration and a non-zero
\* total, the coverage, before and after rounding, lies in 0..100.
C3_CoverageBoundedNonNegative ==
    \A i \in DOMAIN calls :
        (Returned(i) /\ NonNegative(calls[i].input)) =>
            /\ 0 <= calls[i].output[KeyCoverage]
            /\ calls[i].output[KeyCoverage] <= 10000
            /\ aoi_coverage(df).num >= 0
            /\ aoi_coverage(df).num <= 100 * aoi_coverage(df).den

C3_Witness ==
    /\ pc = "reported"
    /\ Returned(1)
    /\ NonNegative(calls[1].input)
    /\ calls[1].output[KeyCoverage] = 9000
    /\ outside_time(df) = 10

ScenarioB(d) ==
    /\ Len(d) = 2
    /\ \E i, j \in DOMAIN d :
        /\ FirstMatch(d[i].x, d[i].y) = "Instruction Label"
        /\ d[i].timestamp = Num(500)
        /\ d[i].duration = Num(50)
        /\ FirstMatch(d[j].x, d[j].y) = "Outside"
        /\ d[j].duration = Num(950)

\* C4 as claimed: scenario B yields total 1000, coverage 5.00, first fixation
\* 500.00, efficiency score 0 and level "High Risk".
C4_ScenarioBScoreZero ==
    \A i \in DOMAIN calls :
        ScenarioB(calls[i].input) =>
            /\ total_fixation(df) = 1000
            /\ calls[i].output[KeyCoverage] = 500
            /\ calls[i].output[KeyFirst] = Num(50000)
            /\ calls[i].output[KeyScore] = 0
            /\ calls[i].output[KeyLevel] = "High Risk"

\* C4 as amended: scenario B yields total 1000, coverage 5.00, first fixation
\* 500.00, efficiency score 15 (the first-fixation clause fires) and level
\* "High Risk".
C4_ScenarioBScoreFifteen ==
    \A i \in DOMAIN calls :
        ScenarioB(calls[i].input) =>
            /\ total_fixation(df) = 1000
            /\ calls[i].output[KeyCoverage] = 500
            /\ calls[i].output[KeyFirst] = Num(50000)
            /\ calls[i].output[KeyScore] = 15
            /\ calls[i].output[KeyLevel] = "High Risk"

C4_Witness ==
    /\ pc = "reported"
    /\ ScenarioB(calls[1].input)
    /\ Returned(1)

\* C5: the score of a direct call, and the Efficiency Score of every returned
\* record, is an integer between 0 and 100.
C5_ScoreBounded ==
    /\ pc = "scored" => ret.score \in 0..100
    /\ \A i \in DOMAIN calls : Returned(i) => calls[i].output[KeyScore] \in 0..100

C5_Witness ==
    /\ pc = "scored"
    /\ ret.score = 100

\* C6: in every returned record the Performance Level is the threshold label
\* of that record's Efficiency Score: >= 85 Efficient, else >= 70 Acceptable,
\* else >= 50 Needs Attention, else High Risk.
C6_LevelIsThresholdOfScore ==
    \A i \in DOMAIN calls :
        Returned(i) =>
            LET sc == calls[i].output[KeyScore]
                lv == calls[i].output[KeyLevel]
            IN  /\ sc >= 85 => lv = "Efficient"
                /\ (sc < 85 /\ sc >= 70) => lv = "Acceptable"
                /\ (sc < 70 /\ sc >= 50) => lv = "Needs Attention"
                /\ sc < 50 => lv = "High Risk"

C6_Witness ==
    /\ pc = "reported"
    /\ Returned(1)
    /\ calls[1].output[KeyScore] = 85
    /\ calls[1].output[KeyLevel] = "Efficient"

\* C7: the per-AOI fixation sums, over every label present, add up to the sum
\* of duration over all rows.
C7_GroupSumsPartition ==
    Labelled =>
        SumGroups(fixation_time(df), DOMAIN fixation_time(df)) = RawTotal(df)

C7_Witness ==
    /\ pc = "reported"
    /\ DOMAIN fixation_time(df) = {"Instruction Label", "Outside"}
    /\ fixation_time(df)["Outside"] = 950
    /\ fixation_time(df)["Instruction Label"] = 50

\* C8: within one process lifetime, two calls on the same dataset return the
\* same record, whatever was processed between them and whether or not the
\* frame already carries an AOI column.
C8_SameInputSameOutput ==
    \A i, j \in DOMAIN calls :
        calls[i].input = calls[j].input => calls[i].output = calls[j].output

C8_Witness ==
    /\ Len(calls) = 3
    /\ calls[1].input = calls[3].input
    /\ calls[2].input # calls[1].input
    /\ Returned(2)
    /\ ~Returned(1)

\* C9: the score is the sum of the five clauses, each evaluated on its own; an
\* undefined first-fixation time ("N/A" passed directly, or no Instruction
\* Label row in the dataset) never earns the 15.
C9_ScoreIsClauseSum ==
    /\ pc = "scored" =>
           /\ ret.score = ClauseSum(call.coverage, call.avg_fix, call.time_to_first)
           /\ call.time_to_first = NA =>
                  ret.score = ClauseSum(call.coverage, call.avg_fix, Num(1000))
    /\ \A i \in DOMAIN calls :
           Returned(i) =>
               /\ calls[i].output[KeyScore] =
                      ClauseSum(aoi_coverage(df), avg_fixation_duration(df),
                                time_to_first_fixation(df))
               /\ ~HasInstructionRow(calls[i].input) =>
                      /\ calls[i].output[KeyFirst] = NA
                      /\ calls[i].output[KeyScore] =
                             ClauseSum(aoi_coverage(df), avg_fixation_duration(df),
                                       Num(1000))

C9_Witness ==
    /\ pc = "scored"
    /\ call.time_to_first = NA
    /\ ret.score = 85

\* C10: with coverage <= 95 or average duration >= 220 the score is at most 80
\* and the level is not "Efficient", whatever the first-fixation time.
C10_EfficientNeedsCoverageAndAverage ==
    /\ pc = "scored" =>
           ((call.coverage.num <= 95 * call.coverage.den
               \/ call.avg_fix.num >= 220 * call.avg_fix.den)
            => (ret.score <= 80 /\ ret.level # "Efficient"))
    /\ \A i \in DOMAIN calls :
           (/\ Returned(i)
            /\ \/ aoi_coverage(df).num <= 95 * aoi_coverage(df).den
               \/ avg_fixation_duration(df).num >= 220 * avg_fixation_duration(df).den)
           => /\ calls[i].output[KeyScore] <= 80
              /\ calls[i].output[KeyLevel] # "Efficient"

C10_Witness ==
    /\ pc = "scored"
    /\ call.coverage = Rat(9500, 100)
    /\ call.avg_fix = Rat(0, 100)
    /\ call.time_to_first = Num(0)
    /\ ret.score = 80
    /\ ret.level = "Acceptable"
====
